---- MODULE Spec2Model ----
(***************************************************************************)
(* Order fulfilment through queues: the order service's CreateOrder, the   *)
(* broker client's Consume loop and the inventory worker's ProcessOrder /  *)
(* failOrder, over one PostgreSQL store (products, orders, order_items).   *)
(*                                                                         *)
(* A transaction is modelled by its pending writes: txDec (the sum of the  *)
(* "stock = stock - $1" updates per product), txStatus (the pending order  *)
(* status) and held (the product rows it has locked).  Commit applies the  *)
(* pending writes to the committed tables and releases the locks; rollback *)
(* drops them.  Every database call and every Publish may fail.           *)
(***************************************************************************)
EXTENDS Integers, Sequences, FiniteSets, TLC

\* ------------------------------------------------------------------ bounds
NumWorkers == 2
MaxOrders == 2
MaxItems == 2
MaxQty == 1
SeedStock == 2
MaxMsgs == 2
MaxDeliveries == 2
MaxCloses == 2

\* for i := 0; i < 10; i++
MaxDialAttempts == 10

\* ------------------------------------------------------------- universes
Workers == 1..NumWorkers
Products == {1, 2}
MissingProduct == Cardinality(Products) + 1
UserID == 1
OrderIds == 1..MaxOrders

Item(p, q) == [product_id |-> p, quantity |-> q]

ItemsOverSigned(ps) ==
  UNION {[1..n -> {Item(p, q) : p \in ps, q \in {-1} \cup (1..MaxQty)}] : n \in 1..MaxItems}

ItemsOver(ps) ==
  UNION {[1..n -> {Item(p, q) : p \in ps, q \in 1..MaxQty}] : n \in 1..MaxItems}

Requests == ItemsOver(Products) \cup
            {<<Item(MissingProduct, 1)>>, <<Item(1, 1), Item(MissingProduct, 1)>>}

NoMsg == [order_id |-> 0, user_id |-> 0, items |-> <<>>, total_amount |-> 0]
NoReason == [kind |-> "none"]
NotFoundReason(p) == [kind |-> "not_found", product |-> p]
InsufficientReason(p, avail, req) ==
  [kind |-> "insufficient", product |-> p, available |-> avail, requested |-> req]

NoAmounts == [total_amount |-> 0, prices |-> <<>>]

ZeroDec == [p \in Products |-> 0]
Unseen == [p \in Products |-> -1]

IdleWorker ==
  [pc |-> "idle", msg |-> NoMsg, idx |-> 0, currentStock |-> 0,
   txDec |-> ZeroDec, txStatus |-> "none", held |-> {}, committed |-> FALSE,
   result |-> "none", reason |-> NoReason, pubErr |-> FALSE,
   seen |-> Unseen, status0 |-> "NONE"]

\* The queue names, in the order declareQueues declares them, and the queue
\* of each Consume call of the worker's main, in call order.
QueueOrderPlaced == "order_placed"
QueueOrderConfirmed == "order_confirmed"
QueueOrderFailed == "order_failed"

QueueList == <<QueueOrderPlaced, QueueOrderConfirmed, QueueOrderFailed>>
Queues == {QueueList[i] : i \in 1..Len(QueueList)}

MainConsumesPlacedTwice == <<QueueOrderPlaced, QueueOrderPlaced, QueueOrderFailed>>

MainConsumes == <<QueueOrderPlaced, QueueOrderConfirmed, QueueOrderFailed>>

MsgIds == 1..MaxMsgs

NoDelivery == [id |-> 0, malformed |-> FALSE]

OffLoop == [pc |-> "off", msg |-> NoDelivery, err |-> FALSE]

\* ------------------------------------------------------------------ state
VARIABLES
  stock,        \* products.stock, committed
  status,       \* orders.status, committed ("NONE": no such row)
  lines,        \* order_items of each order, committed
  amounts,      \* orders.total_amount and the order_items.price of each line
  nextOrderId,  \* the orders.id SERIAL sequence
  placedQ,      \* queue order_placed (ready messages)
  confirmedQ,   \* queue order_confirmed
  failedQ,      \* queue order_failed
  wk,           \* per worker instance: position in Consume/ProcessOrder and its transaction
  acked,        \* orders whose placed message has been acknowledged
  outcomes,     \* per order, the number of outcome events published so far
  pubFailed,    \* orders for which a Publish of an outcome event failed
  response,     \* the last CreateOrder response (status "none": no request yet)
  rmq,          \* the RabbitMQ struct: the state of conn and of channel
  connectPc,    \* the position of Connect: "dial", "channel", "declare", "returned"
  attempts,     \* the number of amqp.Dial calls Connect has made
  declared,     \* the queues declared on the broker, in order
  client,       \* what Connect returned: "none" (not yet), "rmq", "error"; "exited" after log.Fatalf
  ready,        \* per queue, the messages ready for delivery
  loops,        \* per Consume call of main, its goroutine: position, message in hand
  deliveries,   \* per queue and message, the number of times it was delivered
  settled,      \* the messages the broker removed on an Ack
  published,    \* the number of messages published to order_placed
  pubResult,    \* the number of Publish calls on the client and the result of the last
  mails,        \* the outcome events a notification mail was sent for
  closes        \* the number of Close calls on the returned client

vars == <<stock, status, lines, amounts, nextOrderId, placedQ, confirmedQ, failedQ,
          wk, acked, outcomes, pubFailed, response,
          rmq, connectPc, attempts, declared, client, ready, loops, deliveries,
          settled, published, pubResult, mails, closes>>

orderVars == <<stock, status, lines, amounts, nextOrderId, placedQ, confirmedQ,
               failedQ, wk, acked, outcomes, pubFailed, response>>

rmqVars == <<rmq, connectPc, attempts, declared, client, ready, loops,
             deliveries, settled, published, pubResult, mails, closes>>

dbVars == <<stock, status, lines, amounts, nextOrderId>>
outVars == <<confirmedQ, failedQ, outcomes, pubFailed>>

Terminal == {"CONFIRMED", "CANCELLED"}

Init ==
  /\ stock = [p \in Products |-> SeedStock]
  /\ status = [o \in OrderIds |-> "NONE"]
  /\ lines = [o \in OrderIds |-> <<>>]
  /\ amounts = [o \in OrderIds |-> NoAmounts]
  /\ nextOrderId = 1
  /\ placedQ = <<>>
  /\ confirmedQ = <<>>
  /\ failedQ = <<>>
  /\ wk = [w \in Workers |-> IdleWorker]
  /\ acked = {}
  /\ outcomes = [o \in OrderIds |-> 0]
  /\ pubFailed = {}
  /\ response = [status |-> "none", error |-> ""]
  /\ rmq = [conn |-> "nil", channel |-> "nil"]
  /\ connectPc = "dial"
  /\ attempts = 0
  /\ declared = <<>>
  /\ client = "none"
  /\ ready = [q \in Queues |-> <<>>]
  /\ loops = [g \in 1..Len(MainConsumes) |-> OffLoop]
  /\ deliveries = [q \in Queues |-> [m \in MsgIds |-> 0]]
  /\ settled = {}
  /\ published = 0
  /\ pubResult = [calls |-> 0, last |-> "none"]
  /\ mails = {}
  /\ closes = 0

\* ------------------------------------------------------------ CreateOrder
ProductInStock(p) == p \in Products /\ stock[p] > 0

ProductExists(p) == p \in Products

\* products.price of the seeded products, in thousands.
Price == <<15999, 18999>>

\* What Scan(&price) leaves in price: the column, or the zero value when the
\* SELECT returned no row.
PriceOf(p) == IF p \in DOMAIN Price THEN Price[p] ELSE 0

\* totalAmount after the validation loop has run over items 1..n.
RECURSIVE TotalUpTo(_, _)
TotalUpTo(items, n) ==
  IF n = 0 THEN 0
  ELSE TotalUpTo(items, n - 1) + PriceOf(items[n].product_id) * items[n].quantity

TotalAmount(items) == TotalUpTo(items, Len(items))

\* The price the insert loop selects again and stores with the line.  A SELECT
\* that fails inside the transaction makes the INSERT after it fail as well
\* (fault "insert_item"), so a stored price is never the zero value.
SnapshotPriceUnscanned(p) == 0

SnapshotPrice(p) == PriceOf(p)

LinePrices(items) == [i \in 1..Len(items) |-> SnapshotPrice(items[i].product_id)]

PlacedMessageUserAsOrder(o, items) ==
  [order_id |-> UserID, user_id |-> UserID, items |-> items,
   total_amount |-> TotalAmount(items)]

PlacedMessage(o, items) ==
  [order_id |-> o, user_id |-> UserID, items |-> items,
   total_amount |-> TotalAmount(items)]

\* A fault of one request: the call that fails ("none": no call fails) and,
\* for the calls made once per item, the item at which it fails.  A fault at
\* an item the request does not have never happens.
CreateFaults ==
  {[at |-> a, k |-> 0] :
     a \in {"none", "begin", "insert_order", "commit", "publish"}} \cup
  {[at |-> a, k |-> k] : a \in {"select", "insert_item"}, k \in 1..MaxItems}

\* The validation loop from item i on: the response it returns with, or "ok".
ValidateFirstOnly(items, fault, i) ==
  IF fault.at = "select" /\ fault.k = 1 THEN "InternalServerError"
  ELSE IF ~ProductExists(items[1].product_id) THEN "BadRequest"
  ELSE "ok"

RECURSIVE Validate(_, _, _)
Validate(items, fault, i) ==
  IF i > Len(items) THEN "ok"
  ELSE IF fault.at = "select" /\ fault.k = i THEN "InternalServerError"
  ELSE IF ~ProductExists(items[i].product_id) THEN "BadRequest"
  ELSE Validate(items, fault, i + 1)

\* The order_items rows the transaction has inserted when the insert loop ends
\* or returns.
InsertedLines(items, fault) ==
  IF fault.at = "insert_item" /\ fault.k <= Len(items)
  THEN SubSeq(items, 1, fault.k - 1)
  ELSE items

\* The handler arrives at tx.Commit(): no earlier return.
ReachesCommit(items, fault) ==
  /\ fault.at \notin {"begin", "insert_order"}
  /\ Validate(items, fault, 1) = "ok"
  /\ InsertedLines(items, fault) = items

\* The transaction's rows become visible; on every earlier return the deferred
\* tx.Rollback() drops them.
CommitsPartial(items, fault) ==
  /\ fault.at \notin {"begin", "insert_order", "commit"}
  /\ Validate(items, fault, 1) = "ok"

Commits(items, fault) == ReachesCommit(items, fault) /\ fault.at # "commit"

\* rmq.Publish(QueueOrderPlaced, message) is reached and succeeds.
PublishesUncommitted(items, fault) ==
  ReachesCommit(items, fault) /\ fault.at # "publish"

Publishes(items, fault) == Commits(items, fault) /\ fault.at # "publish"

\* The handler's c.JSON: the HTTP status and the error text.
Reply(code, error) == [status |-> code, error |-> error]

Response(items, fault) ==
  IF fault.at = "begin"
  THEN Reply("InternalServerError", "Failed to start transaction")
  ELSE IF Validate(items, fault, 1) = "BadRequest"
  THEN Reply("BadRequest", "Product ID not found")
  ELSE IF Validate(items, fault, 1) = "InternalServerError"
  THEN Reply("InternalServerError", "Database error")
  ELSE IF fault.at = "insert_order"
  THEN Reply("InternalServerError", "Failed to create order")
  ELSE IF InsertedLines(items, fault) # items
  THEN Reply("InternalServerError", "Failed to create order items")
  ELSE IF fault.at = "commit"
  THEN Reply("InternalServerError", "Failed to commit transaction")
  ELSE IF fault.at = "publish"
  THEN Reply("InternalServerError",
             "Order created but failed to queue for processing")
  ELSE Reply("Accepted", "")

\* Order ids are the rank of the order among the committed ones: an id drawn
\* from the SERIAL sequence by a rolled-back INSERT is a gap no operation
\* observes.
CreateOrder(items, fault) ==
  /\ nextOrderId <= MaxOrders
  /\ response' = Response(items, fault)
  /\ IF Commits(items, fault)
     THEN /\ nextOrderId' = nextOrderId + 1
          /\ status' = [status EXCEPT ![nextOrderId] = "PENDING"]
          /\ lines' = [lines EXCEPT ![nextOrderId] = InsertedLines(items, fault)]
          /\ amounts' = [amounts EXCEPT ![nextOrderId] =
                           [total_amount |-> TotalAmount(items),
                            prices |-> LinePrices(InsertedLines(items, fault))]]
     ELSE UNCHANGED <<status, lines, amounts, nextOrderId>>
  /\ placedQ' = IF Publishes(items, fault)
                THEN Append(placedQ, PlacedMessage(nextOrderId, items))
                ELSE placedQ
  /\ UNCHANGED <<stock, confirmedQ, failedQ, wk, acked, outcomes, pubFailed>>
  /\ UNCHANGED rmqVars

\* ----------------------------------------------------------- ProcessOrder
Order(w) == wk[w].msg.order_id

CurrentItem(w) == wk[w].msg.items[wk[w].idx]

\* SELECT ... FOR UPDATE waits while another transaction holds the row.
LockFreeNoWait(w, p) == TRUE

LockFree(w, p) == \A v \in Workers \ {w} : p \notin wk[v].held

\* The stock a statement of w's open transaction reads: the committed row
\* with w's own pending updates applied.
TxStockStale(w, p) == stock[p]

TxStock(w, p) == stock[p] - wk[w].txDec[p]

Insufficient(currentStock, quantity) == currentStock < quantity

\* CONSTRAINT positive_stock CHECK (stock >= 0)
PositiveStockStrict(s) == s > 0

PositiveStock(s) == s >= 0

\* The effect of tx.Exec(UPDATE products SET stock = stock - $1): a pending
\* write of w's transaction, the committed row is untouched.
StockWriteAutocommit(w, p, q) ==
  [stock |-> [stock EXCEPT ![p] = @ - q], txDec |-> wk[w].txDec]

StockWriteOffByOne(w, p, q) ==
  [stock |-> stock, txDec |-> [wk[w].txDec EXCEPT ![p] = @ + q + 1]]

StockWrite(w, p, q) ==
  [stock |-> stock, txDec |-> [wk[w].txDec EXCEPT ![p] = @ + q]]

\* What tx.Commit makes visible.
CommittedStock(w) == [p \in Products |-> stock[p] - wk[w].txDec[p]]

\* The deferred tx.Rollback: a no-op after Commit (sql.ErrTxDone), otherwise
\* it drops the pending writes and releases the row locks.
RollbackKeepsLocks(r) ==
  IF r.committed THEN r
  ELSE [r EXCEPT !.txDec = ZeroDec, !.txStatus = "none"]

Rollback(r) ==
  IF r.committed THEN r
  ELSE [r EXCEPT !.txDec = ZeroDec, !.txStatus = "none", !.held = {}]

Returned(r, res) == [Rollback(r) EXCEPT !.pc = "returned", !.result = res]

\* ProcessOrder's return value after Publish of order_confirmed.
ConfirmPublishResultSurfaced(ok) == IF ok THEN "ok" ELSE "err"

ConfirmPublishResult(ok) == "ok"

\* ---------------------------------------------------------------- Consume
\* The broker hands the head of order_placed to an instance with nothing in
\* flight (prefetch 1); the loop calls ProcessOrder, which unmarshals the
\* body and opens its transaction with db.Begin().
Deliver(w, ok) ==
  /\ wk[w].pc = "idle"
  /\ placedQ # <<>>
  /\ LET m == Head(placedQ)
         r == [IdleWorker EXCEPT !.msg = m, !.status0 = status[m.order_id]]
     IN wk' = [wk EXCEPT ![w] =
                 IF ok THEN [r EXCEPT !.pc = "item", !.idx = 1]
                 ELSE Returned(r, "err")]
  /\ placedQ' = Tail(placedQ)
  /\ UNCHANGED <<dbVars, outVars, acked, response>>
  /\ UNCHANGED rmqVars

\* msg.Nack(false, true) puts the message back; msg.Ack(false) removes it.
AckOrNack(w) ==
  /\ wk[w].pc = "returned"
  /\ IF wk[w].result = "err"
     THEN /\ placedQ' = <<wk[w].msg>> \o placedQ
          /\ acked' = acked
     ELSE /\ placedQ' = placedQ
          /\ acked' = acked \cup {wk[w].msg.order_id}
  /\ wk' = [wk EXCEPT ![w] = IdleWorker]
  /\ UNCHANGED <<dbVars, outVars, response>>
  /\ UNCHANGED rmqVars

\* ------------------------------------------------ ProcessOrder, one item
\* SELECT name, stock ... FOR UPDATE; the not-found and the stock check; the
\* UPDATE of the stock.  fault: "none", "select" (the SELECT fails, also
\* while it waits for the row), "update" (the UPDATE fails or affects no row).
ProcessItem(w, fault) ==
  /\ wk[w].pc = "item"
  /\ LET p == CurrentItem(w).product_id
         q == CurrentItem(w).quantity
     IN IF fault = "select"
        THEN /\ wk' = [wk EXCEPT ![w] = Returned(@, "err")]
             /\ stock' = stock
        ELSE IF ~ProductExists(p)
        THEN /\ wk' = [wk EXCEPT ![w] = [@ EXCEPT !.pc = "failOrder",
                                                  !.reason = NotFoundReason(p)]]
             /\ stock' = stock
        ELSE /\ LockFree(w, p)
             /\ LET cur == TxStock(w, p)
                    locked == [wk[w] EXCEPT
                                 !.held = @ \cup {p},
                                 !.currentStock = cur,
                                 !.seen = IF @[p] = -1 THEN [@ EXCEPT ![p] = stock[p]] ELSE @]
                    wr == StockWrite(w, p, q)
                IN IF Insufficient(cur, q)
                   THEN /\ wk' = [wk EXCEPT ![w] =
                                    [locked EXCEPT !.pc = "failOrder",
                                                   !.reason = InsufficientReason(p, cur, q)]]
                        /\ stock' = stock
                   ELSE IF fault = "update" \/ ~PositiveStock(cur - q)
                   THEN /\ wk' = [wk EXCEPT ![w] = Returned(locked, "err")]
                        /\ stock' = stock
                   ELSE /\ wk' = [wk EXCEPT ![w] =
                                    [locked EXCEPT
                                       !.txDec = wr.txDec,
                                       !.idx = @ + 1,
                                       !.pc = IF wk[w].idx = Len(wk[w].msg.items)
                                              THEN "confirm" ELSE "item"]]
                        /\ stock' = wr.stock
  /\ UNCHANGED <<status, lines, amounts, nextOrderId, placedQ, outVars, acked, response>>
  /\ UNCHANGED rmqVars

\* UPDATE orders SET status = 'CONFIRMED' and tx.Commit().
\* fault: "none", "update", "commit".
Confirm(w, fault) ==
  /\ wk[w].pc = "confirm"
  /\ IF fault = "none"
     THEN LET r == [wk[w] EXCEPT !.txStatus = "CONFIRMED"]
          IN /\ stock' = CommittedStock(w)
             /\ status' = [status EXCEPT ![Order(w)] = r.txStatus]
             /\ wk' = [wk EXCEPT ![w] = [r EXCEPT !.committed = TRUE, !.held = {},
                                                  !.pc = "announce"]]
     ELSE /\ UNCHANGED <<stock, status>>
          /\ wk' = [wk EXCEPT ![w] = Returned(@, "err")]
  /\ UNCHANGED <<lines, amounts, nextOrderId, placedQ, outVars, acked, response>>
  /\ UNCHANGED rmqVars

ConfirmedEvent(w) == [order_id |-> Order(w), user_id |-> wk[w].msg.user_id]

\* SELECT email FROM users, Publish(order_confirmed) and the return.
\* fault: "none", "email", "publish".
Announce(w, fault) ==
  /\ wk[w].pc = "announce"
  /\ IF fault = "email"
     THEN /\ wk' = [wk EXCEPT ![w] = Returned(@, "err")]
          /\ UNCHANGED outVars
     ELSE /\ IF fault = "none"
             THEN /\ confirmedQ' = Append(confirmedQ, ConfirmedEvent(w))
                  /\ outcomes' = [outcomes EXCEPT ![Order(w)] = @ + 1]
                  /\ pubFailed' = pubFailed
             ELSE /\ pubFailed' = pubFailed \cup {Order(w)}
                  /\ UNCHANGED <<confirmedQ, outcomes>>
          /\ failedQ' = failedQ
          /\ wk' = [wk EXCEPT ![w] =
                      Returned([@ EXCEPT !.pubErr = (fault = "publish")],
                               ConfirmPublishResult(fault = "none"))]
  /\ UNCHANGED <<dbVars, placedQ, acked, response>>
  /\ UNCHANGED rmqVars

\* -------------------------------------------------------------- failOrder
\* What failOrder's tx.Commit() makes visible of the stock: tx is the
\* transaction ProcessOrder opened, with the updates of the earlier items.
CancelledStockRestored(w) == stock

CancelledStock(w) == CommittedStock(w)

\* failOrder after a failed UPDATE or Commit: it logs and returns, and
\* ProcessOrder returns nil.
FailOrderAbortedAnnounces(r) == [r EXCEPT !.pc = "failAnnounce"]

FailOrderAborted(r) == Returned(r, "ok")

\* The status failOrder's UPDATE orders binds to $1.
FailOrderStatusFailed == "FAILED"

FailOrderStatus == "CANCELLED"

\* UPDATE orders SET status = 'CANCELLED' and tx.Commit().
\* fault: "none", "update", "commit".
FailOrderCommit(w, fault) ==
  /\ wk[w].pc = "failOrder"
  /\ IF fault = "none"
     THEN LET r == [wk[w] EXCEPT !.txStatus = FailOrderStatus]
          IN /\ stock' = CancelledStock(w)
             /\ status' = [status EXCEPT ![Order(w)] = r.txStatus]
             /\ wk' = [wk EXCEPT ![w] = [r EXCEPT !.committed = TRUE, !.held = {},
                                                  !.pc = "failAnnounce"]]
     ELSE /\ UNCHANGED <<stock, status>>
          /\ wk' = [wk EXCEPT ![w] = FailOrderAborted(@)]
  /\ UNCHANGED <<lines, amounts, nextOrderId, placedQ, outVars, acked, response>>
  /\ UNCHANGED rmqVars

FailedEventSwapped(w) ==
  [order_id |-> Order(w), user_id |-> wk[w].msg.user_id,
   reason |-> [wk[w].reason EXCEPT !.available = wk[w].reason.requested,
                                   !.requested = wk[w].reason.available]]

FailedEvent(w) ==
  [order_id |-> Order(w), user_id |-> wk[w].msg.user_id, reason |-> wk[w].reason]

\* SELECT email FROM users, Publish(order_failed) and the return.
\* fault: "none", "email", "publish".
FailOrderAnnounce(w, fault) ==
  /\ wk[w].pc = "failAnnounce"
  /\ IF fault = "none"
     THEN /\ failedQ' = Append(failedQ, FailedEvent(w))
          /\ outcomes' = [outcomes EXCEPT ![Order(w)] = @ + 1]
          /\ pubFailed' = pubFailed
     ELSE /\ pubFailed' = IF fault = "publish" THEN pubFailed \cup {Order(w)}
                          ELSE pubFailed
          /\ UNCHANGED <<failedQ, outcomes>>
  /\ wk' = [wk EXCEPT ![w] = Returned([@ EXCEPT !.pubErr = (fault = "publish")], "ok")]
  /\ UNCHANGED <<dbVars, placedQ, confirmedQ, acked, response>>
  /\ UNCHANGED rmqVars

\* ------------------------------------------------------------------- Next
ItemFaults == {"none", "select", "update"}
CommitFaults == {"none", "update", "commit"}
AnnounceFaults == {"none", "email", "publish"}

Next ==
  \/ \E items \in Requests, fault \in CreateFaults : CreateOrder(items, fault)
  \/ \E w \in Workers, ok \in BOOLEAN : Deliver(w, ok)
  \/ \E w \in Workers : AckOrNack(w)
  \/ \E w \in Workers, fault \in ItemFaults : ProcessItem(w, fault)
  \/ \E w \in Workers, fault \in CommitFaults : Confirm(w, fault)
  \/ \E w \in Workers, fault \in AnnounceFaults : Announce(w, fault)
  \/ \E w \in Workers, fault \in CommitFaults : FailOrderCommit(w, fault)
  \/ \E w \in Workers, fault \in AnnounceFaults : FailOrderAnnounce(w, fault)

Spec == Init /\ [][Next]_vars

\* ------------------------------------------- one instance, no fault, fair
\* A deployment of one worker instance whose database, broker and user
\* lookup never fail.  CreateOrder keeps its faults.
TheWorker == CHOOSE w \in Workers : \A v \in Workers : w <= v

\* The steps of the instance: the broker delivers to a consumer with nothing
\* in flight, the goroutine runs ProcessOrder to its return and acknowledges.
WorkerSteps ==
  \/ Deliver(TheWorker, TRUE)
  \/ AckOrNack(TheWorker)
  \/ ProcessItem(TheWorker, "none")
  \/ Confirm(TheWorker, "none")
  \/ Announce(TheWorker, "none")
  \/ FailOrderCommit(TheWorker, "none")
  \/ FailOrderAnnounce(TheWorker, "none")

NextLive ==
  \/ \E items \in Requests, fault \in CreateFaults : CreateOrder(items, fault)
  \/ Deliver(TheWorker, TRUE)
  \/ AckOrNack(TheWorker)
  \/ ProcessItem(TheWorker, "none")
  \/ Confirm(TheWorker, "none")
  \/ Announce(TheWorker, "none")
  \/ FailOrderCommit(TheWorker, "none")
  \/ FailOrderAnnounce(TheWorker, "none")

SpecLive == Init /\ [][NextLive]_vars /\ WF_vars(WorkerSteps)

\* ---------------------------------------------------------------- Connect
\* The loop condition of the dial loop, i attempts made so far.
DialAgainInclusive(i) == i <= MaxDialAttempts

DialAgain(i) == i < MaxDialAttempts

\* One pass of the dial loop: amqp.Dial, break on success, else log and sleep;
\* when the loop ends with err set, Connect returns (nil, error).
Dial(ok) ==
  /\ connectPc = "dial"
  /\ DialAgain(attempts)
  /\ attempts' = attempts + 1
  /\ IF ok
     THEN /\ rmq' = [rmq EXCEPT !.conn = "open"]
          /\ connectPc' = "channel"
          /\ client' = client
     ELSE /\ rmq' = rmq
          /\ connectPc' = IF DialAgain(attempts + 1) THEN "dial" ELSE "returned"
          /\ client' = IF DialAgain(attempts + 1) THEN client ELSE "error"
  /\ UNCHANGED <<declared, ready, loops, deliveries, settled, published,
                 pubResult, mails, closes>>
  /\ UNCHANGED orderVars

\* What Close leaves of the struct: a channel and a connection that are not
\* nil are closed; closing one that is closed already only returns an error
\* Close ignores.
ClosedStruct(r) ==
  [conn |-> IF r.conn # "nil" THEN "closed" ELSE r.conn,
   channel |-> IF r.channel # "nil" THEN "closed" ELSE r.channel]

\* conn.Channel(); on failure conn.Close() and (nil, error).
OpenChannel(ok) ==
  /\ connectPc = "channel"
  /\ IF ok
     THEN /\ rmq' = [rmq EXCEPT !.channel = "open"]
          /\ connectPc' = "declare"
          /\ client' = client
     ELSE /\ rmq' = [rmq EXCEPT !.conn = "closed"]
          /\ connectPc' = "returned"
          /\ client' = "error"
  /\ UNCHANGED <<attempts, declared, ready, loops, deliveries, settled,
                 published, pubResult, mails, closes>>
  /\ UNCHANGED orderVars

\* channel.QueueDeclare(queue, durable = true, ...).
Declaration(q) == [name |-> q, durable |-> TRUE]

\* declareQueues has declared every queue of its list.
AllDeclaredButLast(d) == Len(d) >= Len(QueueList) - 1

AllDeclared(d) == Len(d) = Len(QueueList)

\* One pass of the loop of declareQueues; when it fails, rmq.Close() and
\* (nil, err); after the last queue Connect returns (rmq, nil).
DeclareQueue(ok) ==
  /\ connectPc = "declare"
  /\ ~AllDeclared(declared)
  /\ IF ok
     THEN LET d == Append(declared, Declaration(QueueList[Len(declared) + 1]))
          IN /\ declared' = d
             /\ rmq' = rmq
             /\ connectPc' = IF AllDeclared(d) THEN "returned" ELSE "declare"
             /\ client' = IF AllDeclared(d) THEN "rmq" ELSE client
     ELSE /\ declared' = declared
          /\ rmq' = ClosedStruct(rmq)
          /\ connectPc' = "returned"
          /\ client' = "error"
  /\ UNCHANGED <<attempts, ready, loops, deliveries, settled, published,
                 pubResult, mails, closes>>
  /\ UNCHANGED orderVars

\* ---------------------------------------------------------------- Publish
\* r.channel.Publish on a channel that is not open returns an error; on an
\* open one the broker appends the persistent message to the queue.
PublishToReopening(q, m) ==
  [ready |-> [ready EXCEPT ![q] = Append(@, m)], result |-> "ok",
   rmq |-> [conn |-> "open", channel |-> "open"]]

PublishTo(q, m) ==
  IF rmq.channel = "open"
  THEN [ready |-> [ready EXCEPT ![q] = Append(@, m)], result |-> "ok", rmq |-> rmq]
  ELSE [ready |-> ready, result |-> "err", rmq |-> rmq]

\* The order service, a client of its own, publishes a placed message; the
\* body may be one that ProcessOrder cannot unmarshal.
Arrive(bad) ==
  /\ published < MaxMsgs
  /\ published' = published + 1
  /\ ready' = [ready EXCEPT ![QueueOrderPlaced] =
                 Append(@, [id |-> published + 1, malformed |-> bad])]
  /\ UNCHANGED <<rmq, connectPc, attempts, declared, client, loops, deliveries,
                 settled, pubResult, mails, closes>>
  /\ UNCHANGED orderVars

\* ---------------------------------------------------------------- Consume
Handling(g) == loops[g].pc \in {"handler", "returned"}

\* The deliveries of queue q the client has not acknowledged: the broker
\* puts them back when the channel goes away.
RECURSIVE UnackedUpTo(_, _)
UnackedUpTo(q, g) ==
  IF g = 0 THEN <<>>
  ELSE UnackedUpTo(q, g - 1) \o
       (IF MainConsumes[g] = q /\ Handling(g) /\ rmq.channel = "open"
        THEN <<loops[g].msg>> ELSE <<>>)

Unacked(q) == UnackedUpTo(q, Len(MainConsumes))

\* main's next Consume call: Qos(1) and channel.Consume register the
\* consumer and start its goroutine; on an error main ends in log.Fatalf.
ConsumeCall(ok) ==
  /\ client = "rmq"
  /\ closes = 0
  /\ \E g \in 1..Len(MainConsumes) :
       /\ loops[g].pc = "off"
       /\ \A h \in 1..(g - 1) : loops[h].pc # "off"
       /\ IF ok /\ rmq.channel = "open"
          THEN /\ loops' = [loops EXCEPT ![g].pc = "recv"]
               /\ UNCHANGED <<client, rmq, ready>>
          ELSE /\ client' = "exited"
               /\ rmq' = ClosedStruct(rmq)
               /\ loops' = [h \in DOMAIN loops |->
                              [OffLoop EXCEPT !.pc =
                                 IF loops[h].pc = "off" THEN "off" ELSE "ended"]]
               /\ ready' = [q \in Queues |-> Unacked(q) \o ready[q]]
  /\ UNCHANGED <<connectPc, attempts, declared, deliveries, settled, published,
                 pubResult, mails, closes>>
  /\ UNCHANGED orderVars

\* for msg := range msgs: the goroutine takes the delivery the broker sent.
\* With Qos(1) the broker sends a consumer nothing more until the delivery it
\* holds is acknowledged or rejected.
Receive(g) ==
  LET q == MainConsumes[g]
  IN /\ loops[g].pc = "recv"
     /\ rmq.channel = "open"
     /\ ready[q] # <<>>
     /\ deliveries[q][Head(ready[q]).id] < MaxDeliveries
     /\ loops' = [loops EXCEPT ![g] = [pc |-> "handler", msg |-> Head(ready[q]),
                                        err |-> FALSE]]
     /\ ready' = [ready EXCEPT ![q] = Tail(@)]
     /\ deliveries' = [deliveries EXCEPT ![q][Head(ready[q]).id] = @ + 1]
     /\ UNCHANGED <<rmq, connectPc, attempts, declared, client, settled,
                    published, pubResult, mails, closes>>
     /\ UNCHANGED orderVars

\* The handlers main registers.  ProcessOrder (order_placed) fails on a body
\* it cannot unmarshal; otherwise it returns an error ("err") or nil, after a
\* Publish of a confirmed event, of a failed event, or without a successful
\* Publish ("quiet").  ProcessConfirmed fails on a body it cannot unmarshal,
\* returns an error when SELECT total_amount fails ("lookup") or when
\* smtp.SendMail fails ("mail"), and nil after the mail was sent ("sent");
\* ProcessFailed does the same without the lookup.
Outcomes(q) ==
  IF q = QueueOrderPlaced THEN {"err", "confirmed", "failed", "quiet"}
  ELSE IF q = QueueOrderConfirmed THEN {"lookup", "mail", "sent"}
  ELSE {"mail", "sent"}

AllOutcomes == UNION {Outcomes(q) : q \in Queues}

HandlerErrSwallowed(q, m, outcome) == FALSE

HandlerErr(q, m, outcome) == m.malformed \/ outcome \in {"err", "lookup", "mail"}

\* The queue the handler publishes to, "" for none.
HandlerPublishesEcho(q, m, outcome) ==
  IF q = QueueOrderPlaced /\ ~m.malformed /\ outcome = "confirmed"
  THEN QueueOrderConfirmed
  ELSE IF q = QueueOrderPlaced /\ ~m.malformed /\ outcome = "failed"
  THEN QueueOrderFailed
  ELSE IF q # QueueOrderPlaced /\ outcome = "sent" THEN q
  ELSE ""

HandlerPublishes(q, m, outcome) ==
  IF q = QueueOrderPlaced /\ ~m.malformed /\ outcome = "confirmed"
  THEN QueueOrderConfirmed
  ELSE IF q = QueueOrderPlaced /\ ~m.malformed /\ outcome = "failed"
  THEN QueueOrderFailed
  ELSE ""

\* The orders' status after a notification handler ran on event m of queue q:
\* ProcessConfirmed only reads total_amount, ProcessFailed touches no table.
NotifiedStatus(q, m) == status

\* err := handler(msg.Body)
HandlerReturn(g, outcome) ==
  LET q == MainConsumes[g]
      m == loops[g].msg
      err == HandlerErr(q, m, outcome)
      to == HandlerPublishes(q, m, outcome)
      pub == PublishTo(to, [id |-> m.id, malformed |-> FALSE])
  IN /\ loops[g].pc = "handler"
     /\ outcome \in Outcomes(q)
     /\ loops' = [loops EXCEPT ![g].pc = "returned", ![g].err = err]
     /\ IF to = ""
        THEN UNCHANGED <<ready, pubResult, rmq>>
        ELSE /\ ready' = pub.ready
             /\ rmq' = pub.rmq
             /\ pubResult' = [calls |-> pubResult.calls + 1, last |-> pub.result]
     /\ mails' = IF q # QueueOrderPlaced /\ ~m.malformed /\ outcome = "sent"
                 THEN mails \cup {<<q, m.id>>}
                 ELSE mails
     /\ status' = IF q = QueueOrderPlaced THEN status ELSE NotifiedStatus(q, m)
     /\ UNCHANGED <<connectPc, attempts, declared, client, deliveries, settled,
                    published, closes>>
     /\ UNCHANGED <<stock, lines, amounts, nextOrderId, placedQ, confirmedQ,
                    failedQ, wk, acked, outcomes, pubFailed, response>>

\* What the broker does with the delivery after the handler returned err:
\* msg.Nack(false, true) puts it back at the head of its queue, msg.Ack(false)
\* removes it.
SettleAlwaysAck(q, m, err) ==
  [ready |-> ready, settled |-> settled \cup {<<q, m>>}]

SettleDropOnError(q, m, err) ==
  [ready |-> ready,
   settled |-> IF err THEN settled ELSE settled \cup {<<q, m>>}]

Settle(q, m, err) ==
  IF err
  THEN [ready |-> [ready EXCEPT ![q] = <<m>> \o @], settled |-> settled]
  ELSE [ready |-> ready, settled |-> settled \cup {<<q, m>>}]

\* The Nack or Ack after the handler, then the next pass of the loop.  On a
\* channel that is closed the call fails, nobody looks at its error, and the
\* range over the closed msgs ends the goroutine.
AckNack(g) ==
  LET q == MainConsumes[g]
      r == Settle(q, loops[g].msg, loops[g].err)
  IN /\ loops[g].pc = "returned"
     /\ IF rmq.channel = "open"
        THEN /\ ready' = r.ready
             /\ settled' = r.settled
             /\ loops' = [loops EXCEPT ![g] = [OffLoop EXCEPT !.pc = "recv"]]
        ELSE /\ UNCHANGED <<ready, settled>>
             /\ loops' = [loops EXCEPT ![g] = [OffLoop EXCEPT !.pc = "ended"]]
     /\ UNCHANGED <<rmq, connectPc, attempts, declared, client, deliveries,
                    published, pubResult, mails, closes>>
     /\ UNCHANGED orderVars

\* The goroutines after the channel went away: msgs is closed, a goroutine
\* waiting in range ends, one inside its handler runs on.
LoopsAfterShutdown ==
  [g \in DOMAIN loops |->
     IF loops[g].pc = "recv" THEN [OffLoop EXCEPT !.pc = "ended"] ELSE loops[g]]

\* The connection of a returned client is lost.
ConnectionLost ==
  /\ client = "rmq"
  /\ rmq.conn = "open"
  /\ rmq' = ClosedStruct(rmq)
  /\ ready' = [q \in Queues |-> Unacked(q) \o ready[q]]
  /\ loops' = LoopsAfterShutdown
  /\ UNCHANGED <<connectPc, attempts, declared, client, deliveries, settled,
                 published, pubResult, mails, closes>>
  /\ UNCHANGED orderVars

\* Close raises a failure: never, it drops the errors channel.Close() and
\* conn.Close() return, amqp.ErrClosed on a closed one included.
CloseFailsOnClosed(r) == r.channel = "closed" \/ r.conn = "closed"

CloseFails(r) == FALSE

\* Close on the returned client.
Close ==
  /\ client = "rmq"
  /\ closes < MaxCloses
  /\ closes' = closes + 1
  /\ rmq' = ClosedStruct(rmq)
  /\ client' = IF CloseFails(rmq) THEN "failed" ELSE client
  /\ ready' = [q \in Queues |-> Unacked(q) \o ready[q]]
  /\ loops' = LoopsAfterShutdown
  /\ UNCHANGED <<connectPc, attempts, declared, deliveries, settled,
                 published, pubResult, mails>>
  /\ UNCHANGED orderVars

NextClient ==
  \/ \E ok \in BOOLEAN : Dial(ok)
  \/ \E ok \in BOOLEAN : OpenChannel(ok)
  \/ \E ok \in BOOLEAN : DeclareQueue(ok)
  \/ \E bad \in BOOLEAN : Arrive(bad)
  \/ \E ok \in BOOLEAN : ConsumeCall(ok)
  \/ \E g \in 1..Len(MainConsumes) : Receive(g)
  \/ \E g \in 1..Len(MainConsumes), outcome \in AllOutcomes : HandlerReturn(g, outcome)
  \/ \E g \in 1..Len(MainConsumes) : AckNack(g)
  \/ ConnectionLost
  \/ Close

SpecClient == Init /\ [][NextClient]_vars

\* ------------------------------------------------------------- quantities
RECURSIVE QtyUpTo(_, _, _)
QtyUpTo(items, p, n) ==
  IF n = 0 THEN 0
  ELSE QtyUpTo(items, p, n - 1) +
       (IF items[n].product_id = p THEN items[n].quantity ELSE 0)

\* The total quantity of product p over the lines of a request or message.
QtyOf(items, p) == QtyUpTo(items, p, Len(items))

RECURSIVE ConfirmedUpTo(_, _)
ConfirmedUpTo(p, o) ==
  IF o = 0 THEN 0
  ELSE ConfirmedUpTo(p, o - 1) +
       (IF status[o] = "CONFIRMED" THEN QtyOf(lines[o], p) ELSE 0)

\* The total quantity of product p over the order_items of CONFIRMED orders.
ConfirmedQty(p) == ConfirmedUpTo(p, MaxOrders)

Acting(w) == wk'[w] # wk[w]

\* An order in the store with no placed message anywhere: not ready in the
\* channel, not delivered to a worker, not acknowledged.  CreateOrder leaves
\* one when Publish fails after the commit.
Orphaned(o) ==
  /\ status[o] # "NONE"
  /\ \A i \in 1..Len(placedQ) : placedQ[i].order_id # o
  /\ \A w \in Workers : wk[w].msg.order_id # o
  /\ o \notin acked

\* ----------------------------------------------------------------- claims

\* C1: in every reachable state, whatever the interleaving of ProcessOrder
\* runs of the worker instances and whatever is redelivered, the committed
\* stock of every product is >= 0.
StockNeverNegative == \A p \in Products : stock[p] >= 0

\* A settlement has been refused for a product whose committed stock an
\* earlier settlement brought down to zero.
StockNeverNegativeWitness ==
  \E w \in Workers, p \in Products :
    /\ stock[p] = 0
    /\ wk[w].pc = "failOrder"
    /\ wk[w].reason = InsufficientReason(p, 0, 1)

\* C2: for every product, the quantities of it on the lines of the CONFIRMED
\* orders add up to at most its initial stock, under any interleaving of
\* ProcessOrder runs on different orders.
NoOversell == \A p \in Products : ConfirmedQty(p) <= SeedStock

\* Two instances settle different orders for the same product at once: one
\* has committed CONFIRMED and used up the stock, the other one has read the
\* row after that commit and is refusing its order.
NoOversellWitness ==
  \E w1, w2 \in Workers, p \in Products :
    /\ w1 # w2
    /\ Order(w1) # Order(w2)
    /\ wk[w1].pc = "announce"
    /\ QtyOf(wk[w1].msg.items, p) > 0
    /\ ConfirmedQty(p) = SeedStock
    /\ wk[w2].pc = "failOrder"
    /\ wk[w2].reason.kind = "insufficient"
    /\ wk[w2].reason.product = p

\* C3: once the committed status of an order is CONFIRMED or CANCELLED, no
\* step changes it, a ProcessOrder run on the redelivered placed message
\* included.
TerminalMonotonic ==
  [][\A o \in OrderIds : status[o] \in Terminal => status'[o] = status[o]]_vars

\* C4: a step of a ProcessOrder run on a placed message whose order is
\* already CONFIRMED or CANCELLED leaves the stock of every product unchanged.
RedeliveryKeepsStock ==
  [][\A w \in Workers :
       (Acting(w) /\ wk[w].msg # NoMsg /\ wk[w].status0 \in Terminal)
         => stock' = stock]_vars

\* C5: when no Publish call has failed, an order whose placed message has
\* been acknowledged in a terminal status has exactly one outcome event, and
\* no order ever has more than one.
ExactlyOneOutcome ==
  pubFailed = {} =>
    \A o \in OrderIds :
      /\ outcomes[o] <= 1
      /\ (o \in acked /\ status[o] \in Terminal) => outcomes[o] = 1

\* C6: on the success path the commit takes exactly the requested quantity
\* of every product off the committed stock and sets the order to CONFIRMED
\* in the same step, and a run that then returns without a fault has
\* published the confirmed event of that order.
SuccessPath ==
  [][\A w \in Workers :
       /\ (wk[w].pc = "confirm" /\ wk'[w].pc = "announce") =>
            /\ status'[Order(w)] = "CONFIRMED"
            /\ \A p \in Products :
                 stock'[p] = stock[p] - QtyOf(wk[w].msg.items, p)
       /\ (wk[w].pc = "announce" /\ wk'[w].pc = "returned"
             /\ wk'[w].result = "ok" /\ ~wk'[w].pubErr) =>
            /\ confirmedQ' = Append(confirmedQ, [order_id |-> Order(w), user_id |-> UserID])
            /\ status[Order(w)] = "CONFIRMED"]_vars

\* A two-line order has been settled: both products are decremented, the
\* order is CONFIRMED and its confirmed event is in the queue.
SuccessPathWitness ==
  \E w \in Workers :
    /\ wk[w].pc = "returned"
    /\ wk[w].result = "ok"
    /\ wk[w].txStatus = "CONFIRMED"
    /\ ~wk[w].pubErr
    /\ wk[w].msg.items = <<Item(1, 1), Item(2, 1)>>
    /\ stock = [p \in Products |-> SeedStock - 1]
    /\ status[Order(w)] = "CONFIRMED"
    /\ confirmedQ = <<[order_id |-> Order(w), user_id |-> UserID]>>

\* C7: a ProcessOrder run that found a line item's product missing or short
\* of stock has, when it returns, committed the order as CANCELLED and
\* returns success.
BusinessFailureCancels ==
  \A w \in Workers :
    (wk[w].pc = "returned" /\ wk[w].reason # NoReason) =>
      /\ wk[w].result = "ok"
      /\ status[Order(w)] = "CANCELLED"

\* C8: a placed message is never acknowledged while its order is PENDING.
NoAckWhilePending == \A o \in acked : status[o] # "PENDING"

\* C9: a step of a run whose transaction has not committed changes neither
\* the committed stock nor a committed status, and when the run returns an
\* error before its commit the status of its order is what it was at the
\* start of the run and every product row it locked holds the stock it
\* read when it locked the row.
AtomicOnError ==
  [][\A w \in Workers :
       /\ (Acting(w) /\ ~wk'[w].committed) => UNCHANGED <<stock, status>>
       /\ (wk[w].pc # "returned" /\ wk'[w].pc = "returned"
             /\ wk'[w].result = "err" /\ ~wk'[w].committed) =>
            /\ status'[wk'[w].msg.order_id] = wk'[w].status0
            /\ \A p \in Products :
                 wk'[w].seen[p] # -1 => stock'[p] = wk'[w].seen[p]]_vars

\* A run returned an error after it had decremented a product in its
\* transaction; the committed stock is still the seeded one.
AtomicOnErrorWitness ==
  \E w \in Workers :
    /\ wk[w].pc = "returned"
    /\ wk[w].result = "err"
    /\ ~wk[w].committed
    /\ wk[w].idx = 2
    /\ wk[w].seen[1] = SeedStock
    /\ stock[1] = SeedStock
    /\ status[Order(w)] = "PENDING"

\* C10 as stated: when Publish of the confirmed event fails after the
\* CONFIRMED commit, ProcessOrder returns an error to its caller.
PublishFailureSurfaced ==
  \A w \in Workers :
    (wk[w].pc = "returned" /\ wk[w].pubErr /\ wk[w].txStatus = "CONFIRMED")
      => wk[w].result = "err"

\* C10, amended: when Publish of the confirmed event fails after the
\* CONFIRMED commit, ProcessOrder only logs it and returns success, the order
\* is CONFIRMED and the committed stock of every product it locked is at
\* most the stock it read minus its decrements.
PublishFailureSwallowed ==
  \A w \in Workers :
    (wk[w].pc = "returned" /\ wk[w].pubErr /\ wk[w].txStatus = "CONFIRMED") =>
      /\ wk[w].result = "ok"
      /\ status[Order(w)] = "CONFIRMED"
      /\ \A p \in Products :
           wk[w].seen[p] # -1 => stock[p] <= wk[w].seen[p] - wk[w].txDec[p]

\* Publish of a confirmed event has failed: the run has returned, the order
\* is CONFIRMED, no confirmed event exists.
PublishFailureWitness ==
  \E w \in Workers :
    /\ wk[w].pc = "returned"
    /\ wk[w].pubErr
    /\ wk[w].txStatus = "CONFIRMED"
    /\ wk[w].txDec[1] = 1
    /\ stock[1] = SeedStock - 1
    /\ outcomes[Order(w)] = 0

\* C11: a failure after the CONFIRMED commit (the user-email lookup or the
\* Publish of the confirmed event) is harmless: the placed message of a
\* CONFIRMED order is delivered again only after such a failure, and no step
\* of a run on it changes the stock of a product or the status of the order.
PostCommitFailureHarmless ==
  [][\A w \in Workers :
       (Acting(w) /\ wk[w].status0 = "CONFIRMED") =>
         /\ stock' = stock
         /\ status'[Order(w)] = "CONFIRMED"]_vars

\* C12: when failOrder commits, the decrements of the items before the
\* failing one become visible together with the CANCELLED status; no later
\* step of the run changes the stock, and no step ever raises a stock.
PartialDecrementCommitted ==
  [][/\ \A w \in Workers :
          /\ (wk[w].pc = "failOrder" /\ wk'[w].pc = "failAnnounce") =>
               /\ status'[Order(w)] = "CANCELLED"
               /\ \A p \in Products :
                    stock'[p] =
                      stock[p] - QtyUpTo(wk[w].msg.items, p, wk[w].idx - 1)
          /\ (wk[w].pc = "failAnnounce" /\ Acting(w)) => stock' = stock
     /\ \A p \in Products : stock'[p] <= stock[p]]_vars

\* The second item of an order found no stock left after the first item had
\* taken the last unit: the order is CANCELLED and the unit is gone.
PartialDecrementWitness ==
  \E w \in Workers :
    /\ wk[w].pc = "failAnnounce"
    /\ wk[w].idx = 2
    /\ wk[w].seen[1] = 1
    /\ wk[w].txDec[1] = 1
    /\ stock[1] = 0
    /\ status[Order(w)] = "CANCELLED"

\* C13: when an item fails its existence or stock check, the run holds no
\* lock on and has no pending decrement of the product of that item or of any
\* later item of the message.
AbortOnFirstFailure ==
  \A w \in Workers :
    wk[w].pc = "failOrder" =>
      \A i \in wk[w].idx..Len(wk[w].msg.items) :
        LET p == wk[w].msg.items[i].product_id
        IN ProductExists(p) => (p \notin wk[w].held /\ wk[w].txDec[p] = 0)

\* C13, amended: when an item fails its existence or stock check, the pending
\* decrements of the run are exactly those of the items before it, and the
\* rows the run holds locked are exactly those of the items up to and
\* including it: the SELECT ... FOR UPDATE that read the failing item's stock
\* has locked its row, and no row is locked for a later item.
AbortAfterLockingFailingItem ==
  \A w \in Workers :
    wk[w].pc = "failOrder" =>
      LET items == wk[w].msg.items
          k == wk[w].idx
      IN \A p \in Products :
           /\ wk[w].txDec[p] = QtyUpTo(items, p, k - 1)
           /\ p \in wk[w].held <=> \E i \in 1..k : items[i].product_id = p

\* The first of two items found its product sold out: its row is locked,
\* the row of the second item's product is not, nothing is decremented.
AbortWitness ==
  \E w \in Workers :
    /\ wk[w].pc = "failOrder"
    /\ wk[w].idx = 1
    /\ Len(wk[w].msg.items) = 2
    /\ wk[w].msg.items[1].product_id = 1
    /\ wk[w].msg.items[2].product_id = 2
    /\ wk[w].held = {1}
    /\ wk[w].txDec = ZeroDec
    /\ stock[2] = SeedStock

\* C14: the failed event a run publishes carries the order id and the user
\* id of its placed message and the reason of the first item, in payload
\* order, that failed its check: product not found, or insufficient stock
\* with the stock read under the row lock (the stock at the first lock minus
\* the run's decrements for earlier items) and the requested quantity; every
\* earlier item passed its check.
FailedEventContent ==
  [][\A w \in Workers :
       (Acting(w) /\ wk[w].pc = "failAnnounce" /\ failedQ' # failedQ) =>
         LET items == wk[w].msg.items
             k == wk[w].idx
             p == items[k].product_id
             avail == wk[w].seen[p] - QtyUpTo(items, p, k - 1)
         IN /\ failedQ' =
                 Append(failedQ,
                        [order_id |-> wk[w].msg.order_id,
                         user_id |-> wk[w].msg.user_id,
                         reason |-> IF p \in Products
                                    THEN InsufficientReason(p, avail, items[k].quantity)
                                    ELSE NotFoundReason(p)])
            /\ p \in Products => avail < items[k].quantity
            /\ \A j \in 1..(k - 1) :
                 /\ items[j].product_id \in Products
                 /\ QtyUpTo(items, items[j].product_id, j)
                      <= wk[w].seen[items[j].product_id]]_vars

\* The failed event of order 2 is in the channel: its second item found no
\* unit of product 1 left after its first item.
FailedEventWitness ==
  /\ failedQ # <<>>
  /\ failedQ[1] = [order_id |-> 2, user_id |-> UserID,
                    reason |-> InsufficientReason(1, 0, 1)]
  /\ lines[2] = <<Item(1, 1), Item(1, 1)>>
  /\ stock[1] = 0
  /\ status[1] = "CONFIRMED"
  /\ lines[1] = <<Item(1, 1)>>

\* C15: an outcome event is published only by a run whose transaction has
\* committed the terminal status of the order: every order with an outcome
\* event in a channel, or counted as published, has a committed status that
\* is CONFIRMED or CANCELLED, never PENDING.
CommitBeforeAnnounce ==
  /\ \A i \in 1..Len(confirmedQ) : status[confirmedQ[i].order_id] \in Terminal
  /\ \A i \in 1..Len(failedQ) : status[failedQ[i].order_id] \in Terminal
  /\ \A o \in OrderIds : outcomes[o] > 0 => status[o] \in Terminal

\* A confirmed event and a failed event are in their channels, of a
\* CONFIRMED and of a CANCELLED order.
CommitBeforeAnnounceWitness ==
  /\ confirmedQ # <<>>
  /\ failedQ # <<>>
  /\ status[confirmedQ[1].order_id] = "CONFIRMED"
  /\ status[failedQ[1].order_id] = "CANCELLED"

\* C16: the placed event is published only after the transaction that
\* inserted the order has committed: every placed message, ready in the
\* channel or delivered to a worker, references an order that exists in the
\* store, with the lines the message lists.
PlacedAfterCommit ==
  /\ \A i \in 1..Len(placedQ) :
       /\ status[placedQ[i].order_id] # "NONE"
       /\ lines[placedQ[i].order_id] = placedQ[i].items
  /\ \A w \in Workers :
       wk[w].msg # NoMsg =>
         /\ status[wk[w].msg.order_id] # "NONE"
         /\ lines[wk[w].msg.order_id] = wk[w].msg.items

\* The last request was accepted and the placed message of its PENDING order
\* is the newest in the channel.
PlacedAfterCommitWitness ==
  /\ response.status = "Accepted"
  /\ placedQ # <<>>
  /\ placedQ[Len(placedQ)].order_id = nextOrderId - 1
  /\ status[nextOrderId - 1] = "PENDING"

\* C17: a CreateOrder request with a line whose product does not exist is
\* rejected: the step commits no order row and no order line, publishes no
\* placed message and answers with an error status.
RejectMissingProduct ==
  [][\A items \in Requests, fault \in CreateFaults :
       (/\ CreateOrder(items, fault)
        /\ \E i \in 1..Len(items) : items[i].product_id \notin Products) =>
         /\ UNCHANGED <<status, lines, nextOrderId, placedQ>>
         /\ response'.status \in {"BadRequest", "InternalServerError"}]_vars

\* After order 1 was accepted, a request was answered with 400 Bad Request:
\* there is no second order, no line of it and no second placed message.
RejectMissingProductWitness ==
  /\ response = Reply("BadRequest", "Product ID not found")
  /\ nextOrderId = 2
  /\ status[1] = "PENDING"
  /\ status[2] = "NONE"
  /\ lines[2] = <<>>
  /\ placedQ = <<PlacedMessage(1, lines[1])>>

\* C18: an order whose placed event could not be published after the commit
\* stays as it is: it is PENDING, no step brings a placed message for it
\* into existence, and so no settlement changes its status.
OrphanStaysPending ==
  [][\A o \in OrderIds :
       /\ Orphaned(o) => Orphaned(o)'
       /\ Orphaned(o)' => status'[o] = "PENDING"]_vars

\* Publish failed for order 1; order 2, placed after it, has been settled
\* and acknowledged while order 1 is still PENDING with no message.
OrphanWitness ==
  /\ Orphaned(1)
  /\ status[1] = "PENDING"
  /\ status[2] = "CONFIRMED"
  /\ 2 \in acked
  /\ \A w \in Workers : wk[w].pc = "idle"

\* C19: CreateOrder checks existence only: a request whose products all exist
\* and that meets no fault commits a PENDING order with its lines whatever
\* the stock is, no CreateOrder step changes a stock, and the only steps that
\* change a stock are the commits that make a ProcessOrder run's decrements
\* visible.
ExistenceCheckOnly ==
  [][/\ \A items \in Requests, fault \in CreateFaults :
          CreateOrder(items, fault) =>
            /\ stock' = stock
            /\ (/\ fault.at = "none"
                /\ \A i \in 1..Len(items) : items[i].product_id \in Products) =>
                 /\ status'[nextOrderId] = "PENDING"
                 /\ lines'[nextOrderId] = items
     /\ stock' # stock =>
          \E w \in Workers :
            /\ wk[w].pc \in {"confirm", "failOrder"}
            /\ wk'[w].committed
            /\ \A p \in Products : stock'[p] = stock[p] - wk[w].txDec[p]]_vars

\* Order 2 asks for a unit of product 1 and is PENDING, its message waiting,
\* while product 1 is sold out; the stock is what order 1 left.
ExistenceCheckOnlyWitness ==
  /\ response.status = "Accepted"
  /\ status[2] = "PENDING"
  /\ QtyOf(lines[2], 1) > 0
  /\ stock[1] = 0
  /\ lines[1] = <<Item(1, 1), Item(1, 1)>>
  /\ status[1] = "CONFIRMED"
  /\ 1 \in acked
  /\ placedQ = <<PlacedMessage(2, lines[2])>>
  /\ \A w \in Workers : wk[w].pc = "idle"

\* C20: an order header and its lines become visible together: in every
\* state an order row exists iff its lines exist, a CreateOrder step commits
\* either nothing or the header with every line of the request, and a failed
\* INSERT of a line commits nothing and publishes nothing.
HeaderAndLinesAtomic ==
  [][/\ \A o \in OrderIds : status'[o] = "NONE" <=> lines'[o] = <<>>
     /\ \A items \in Requests, fault \in CreateFaults :
          CreateOrder(items, fault) =>
            /\ \/ UNCHANGED <<status, lines>>
               \/ /\ status' = [status EXCEPT ![nextOrderId] = "PENDING"]
                  /\ lines' = [lines EXCEPT ![nextOrderId] = items]
            /\ (fault.at = "insert_item" /\ fault.k <= Len(items)) =>
                 UNCHANGED <<status, lines, nextOrderId, placedQ>>]_vars

\* After order 1 was created with two lines, a request failed at the INSERT
\* of a line: there is no header and no line of a second order.
HeaderAndLinesWitness ==
  /\ response = Reply("InternalServerError", "Failed to create order items")
  /\ nextOrderId = 2
  /\ status[1] = "PENDING"
  /\ Len(lines[1]) = 2
  /\ status[2] = "NONE"
  /\ lines[2] = <<>>
  /\ placedQ = <<PlacedMessage(1, lines[1])>>

\* C21: for every order in the store, the stored total amount is the sum
\* over its lines of the price stored with the line times the quantity of the
\* line, and every placed message of the order carries that total.
RECURSIVE LineSum(_, _, _)
LineSum(prices, items, n) ==
  IF n = 0 THEN 0
  ELSE LineSum(prices, items, n - 1) + prices[n] * items[n].quantity

TotalMatchesLines ==
  /\ \A o \in OrderIds :
       /\ Len(amounts[o].prices) = Len(lines[o])
       /\ amounts[o].total_amount = LineSum(amounts[o].prices, lines[o], Len(lines[o]))
  /\ \A i \in 1..Len(placedQ) :
       placedQ[i].total_amount = amounts[placedQ[i].order_id].total_amount
  /\ \A w \in Workers :
       wk[w].msg # NoMsg =>
         wk[w].msg.total_amount = amounts[wk[w].msg.order_id].total_amount

\* Order 1 has a line of each product; its total is the sum of the two
\* prices and its placed message, waiting in the channel, carries it.
TotalMatchesLinesWitness ==
  /\ lines[1] = <<Item(1, 1), Item(2, 1)>>
  /\ amounts[1] = [total_amount |-> Price[1] + Price[2],
                    prices |-> <<Price[1], Price[2]>>]
  /\ placedQ # <<>>
  /\ placedQ[1].order_id = 1
  /\ placedQ[1].total_amount = Price[1] + Price[2]

\* C22: when the loop of a Consume call settles a delivery, the broker
\* removes the message iff the handler returned no error, and puts it back at
\* the head of its queue otherwise; nothing else removes a message, and a
\* removed message is in no queue and in no handler afterwards.
AckIffHandlerOk ==
  [][/\ \A g \in 1..Len(MainConsumes) :
          (loops[g].pc = "returned" /\ loops'[g].pc = "recv") =>
            LET q == MainConsumes[g]
                m == loops[g].msg
            IN IF loops[g].err
               THEN /\ ready' = [ready EXCEPT ![q] = <<m>> \o @]
                    /\ settled' = settled
               ELSE /\ ready' = ready
                    /\ settled' = settled \cup {<<q, m>>}
     /\ \A g \in 1..Len(MainConsumes) :
          (loops[g].pc = "handler" /\ loops'[g].pc = "returned") =>
            (loops[g].msg.malformed => loops'[g].err)
     /\ settled' # settled =>
          \E g \in 1..Len(MainConsumes) :
            loops[g].pc = "returned" /\ ~loops[g].err /\ loops'[g].pc = "recv"
     /\ \A x \in settled :
          /\ x \in settled'
          /\ \A i \in 1..Len(ready'[x[1]]) : ready'[x[1]][i] # x[2]
          /\ \A g \in 1..Len(MainConsumes) :
               MainConsumes[g] = x[1] => loops'[g].msg # x[2]]_vars

\* A placed message was rejected once, delivered again and acknowledged.
AckIffHandlerOkWitness ==
  \E m \in {[id |-> i, malformed |-> FALSE] : i \in MsgIds} :
    /\ <<QueueOrderPlaced, m>> \in settled
    /\ deliveries[QueueOrderPlaced][m.id] = 2
    /\ loops[1].pc = "recv"

\* C23: no message is ever dropped: every placed message that arrived is
\* ready in its queue, held unacknowledged by a handler, or was removed by an
\* Ack after a handler returned nil; a message whose body cannot be
\* unmarshalled is never removed, however often it was delivered.
PoisonMessageStays ==
  /\ \A x \in settled : ~x[2].malformed
  /\ \A i \in 1..published :
       \E bad \in BOOLEAN :
         LET m == [id |-> i, malformed |-> bad]
         IN \/ <<QueueOrderPlaced, m>> \in settled
            \/ \E k \in 1..Len(ready[QueueOrderPlaced]) :
                 ready[QueueOrderPlaced][k] = m
            \/ /\ rmq.channel = "open"
               /\ \E g \in 1..Len(MainConsumes) :
                    /\ MainConsumes[g] = QueueOrderPlaced
                    /\ Handling(g)
                    /\ loops[g].msg = m

\* A malformed placed message has been delivered as often as the model
\* follows deliveries and is at the head of its queue again, the consumer
\* waiting for the next delivery.
PoisonMessageWitness ==
  /\ ready[QueueOrderPlaced] # <<>>
  /\ Head(ready[QueueOrderPlaced]).malformed
  /\ deliveries[QueueOrderPlaced][Head(ready[QueueOrderPlaced]).id] = MaxDeliveries
  /\ loops[1].pc = "recv"
  /\ rmq.channel = "open"

\* C24: in the worker instance at most one message of a queue is inside its
\* handler or waiting for its Ack or Nack, and a handler is started only by
\* a loop that has settled its previous message, while no other message of
\* that queue is being handled.
OneMessagePerQueue ==
  [][/\ \A q \in Queues :
          Cardinality({g \in 1..Len(MainConsumes) :
                         MainConsumes[g] = q /\ Handling(g)'}) <= 1
     /\ \A g \in 1..Len(MainConsumes) :
          (loops'[g].pc = "handler" /\ loops[g].pc # "handler") =>
            /\ loops[g].pc = "recv"
            /\ loops[g].msg = NoDelivery
            /\ \A h \in 1..Len(MainConsumes) :
                 MainConsumes[h] = MainConsumes[g] => ~Handling(h)]_vars

\* The second placed message is inside ProcessOrder after the first one was
\* acknowledged, while the confirmed event of the first is being handled.
OneMessagePerQueueWitness ==
  /\ <<QueueOrderPlaced, [id |-> 1, malformed |-> FALSE]>> \in settled
  /\ loops[1].pc = "handler"
  /\ loops[1].msg.id = 2
  /\ loops[2].pc = "handler"
  /\ loops[2].msg.id = 1

\* C25: Connect dials at most 10 times, one attempt per step and none after
\* a dial has succeeded, and when it returns without a connection it has
\* made all 10 attempts and returns an error, no client.
ConnectBounded ==
  [][/\ attempts' <= MaxDialAttempts
     /\ attempts' # attempts =>
          /\ attempts' = attempts + 1
          /\ rmq.conn = "nil"
          /\ connectPc = "dial"
     /\ (connectPc' = "returned" /\ rmq'.conn = "nil") =>
          /\ attempts' = MaxDialAttempts
          /\ client' = "error"
     /\ (connectPc = "dial" /\ rmq'.conn = "open") => connectPc' # "dial"]_vars

\* Every dial failed: Connect has returned an error after its 10th attempt.
ConnectBoundedWitness ==
  /\ connectPc = "returned"
  /\ attempts = MaxDialAttempts
  /\ client = "error"
  /\ rmq = [conn |-> "nil", channel |-> "nil"]

\* C26: when Connect has returned a client, order_placed, order_confirmed and
\* order_failed have all been declared durable; when it has returned an error
\* there is no client and the connection it opened, and the channel it
\* opened, are closed.
DeclaredBeforeReturn ==
  /\ client \in {"rmq", "exited"} =>
       \A q \in {"order_placed", "order_confirmed", "order_failed"} :
         \E i \in 1..Len(declared) : declared[i] = [name |-> q, durable |-> TRUE]
  /\ client = "error" =>
       /\ connectPc = "returned"
       /\ rmq.conn \in {"nil", "closed"}
       /\ rmq.channel \in {"nil", "closed"}
  /\ connectPc = "returned" => client # "none"

\* The declaration of the third queue failed: Connect returned an error and
\* closed the channel and the connection.
DeclaredBeforeReturnWitness ==
  /\ client = "error"
  /\ Len(declared) = 2
  /\ rmq = [conn |-> "closed", channel |-> "closed"]

\* C27: a Close on a client whose channel and connection are closed already
\* changes nothing and raises no failure, and every Close leaves the channel
\* and the connection closed: Close then Close leaves what one Close left.
CloseIdempotent ==
  [][closes' # closes =>
       /\ rmq' = [conn |-> "closed", channel |-> "closed"]
       /\ client' = "rmq"
       /\ rmq = [conn |-> "closed", channel |-> "closed"] =>
            UNCHANGED <<rmq, connectPc, attempts, declared, client, ready, loops,
                        deliveries, settled, published, pubResult, mails>>]_vars

\* Close was called twice on a client that had been consuming.
CloseIdempotentWitness ==
  /\ closes = 2
  /\ client = "rmq"
  /\ rmq = [conn |-> "closed", channel |-> "closed"]
  /\ \A g \in 1..Len(MainConsumes) : loops[g].pc = "ended"

\* C28: ProcessConfirmed and ProcessFailed return nil exactly when the mail
\* was sent: an outcome event is acknowledged only after its mail, and when
\* the lookup or the mail failed the event is put back at the head of its
\* queue for another delivery.
NotifyErrorRequeues ==
  [][/\ \A g \in 1..Len(MainConsumes) :
          LET q == MainConsumes[g]
              m == loops[g].msg
          IN q # QueueOrderPlaced =>
               /\ (loops[g].pc = "handler" /\ loops'[g].pc = "returned") =>
                    IF loops'[g].err THEN mails' = mails
                    ELSE mails' = mails \cup {<<q, m.id>>}
               /\ (loops[g].pc = "returned" /\ loops'[g].pc = "recv") =>
                    IF <<q, m.id>> \in mails
                    THEN <<q, m>> \in settled' /\ ready' = ready
                    ELSE /\ settled' = settled
                         /\ ready'[q] # <<>>
                         /\ Head(ready'[q]) = m
     /\ \A x \in settled' : x[1] # QueueOrderPlaced => <<x[1], x[2].id>> \in mails']_vars

\* The confirmed event of order 1 was put back after a failure, delivered a
\* second time, mailed and acknowledged.
NotifyErrorRequeuesWitness ==
  /\ <<QueueOrderConfirmed, [id |-> 1, malformed |-> FALSE]>> \in settled
  /\ deliveries[QueueOrderConfirmed][1] = 2
  /\ <<QueueOrderConfirmed, 1>> \in mails

\* C29: a run of ProcessConfirmed or ProcessFailed, on a first delivery or on
\* a redelivery, leaves every order's status, every product's stock and the
\* order lines as they were, calls Publish not once and puts no message on any
\* queue; no step of a notification consumer changes the tables or publishes.
NotifyLeavesStateAlone ==
  [][\A g \in 1..Len(MainConsumes) :
        MainConsumes[g] # QueueOrderPlaced =>
          /\ loops'[g] # loops[g] =>
               /\ UNCHANGED <<stock, status, lines, amounts, nextOrderId>>
               /\ pubResult' = pubResult
               /\ published' = published
          /\ (loops[g].pc = "handler" /\ loops'[g].pc = "returned") =>
               /\ ready' = ready
               /\ rmq' = rmq]_vars

\* Both outcome queues saw a redelivery and a mail, after the two Publish
\* calls of ProcessOrder, with the tables as they started.
NotifyLeavesStateAloneWitness ==
  /\ deliveries[QueueOrderConfirmed][1] = 2
  /\ deliveries[QueueOrderFailed][2] = 2
  /\ <<QueueOrderConfirmed, 1>> \in mails
  /\ <<QueueOrderFailed, 2>> \in mails
  /\ pubResult.calls = 2
  /\ \A o \in OrderIds : status[o] = "NONE"
  /\ \A p \in Products : stock[p] = SeedStock

\* C30: once the connection of a returned client is gone it stays gone: no
\* step reopens the channel or the connection or runs Connect again, every
\* Publish made from then on returns an error and enqueues nothing, no
\* goroutine takes another message into its handler, and a further Consume
\* call registers no consumer.
LostStaysLost ==
  [][(client = "rmq" /\ rmq.channel = "closed") =>
       /\ rmq' = rmq
       /\ rmq.conn = "closed"
       /\ connectPc' = connectPc
       /\ attempts' = attempts
       /\ declared' = declared
       /\ pubResult'.calls # pubResult.calls =>
            /\ pubResult'.last = "err"
            /\ \A q \in Queues : ready'[q] = ready[q]
       /\ \A g \in 1..Len(MainConsumes) :
            /\ loops'[g].pc = "handler" => loops[g] = loops'[g]
            /\ loops'[g].pc = "recv" => loops[g].pc = "recv"
       /\ deliveries' = deliveries
       /\ settled' = settled]_vars

\* The connection was lost, without any Close, while ProcessOrder was running:
\* its Publish failed, every goroutine has ended, and a message waits in
\* order_placed that no handler will see.
LostStaysLostWitness ==
  /\ client = "rmq"
  /\ closes = 0
  /\ rmq = [conn |-> "closed", channel |-> "closed"]
  /\ pubResult.calls > 0
  /\ pubResult.last = "err"
  /\ \A g \in 1..Len(MainConsumes) : loops[g].pc = "ended"
  /\ Len(ready[QueueOrderPlaced]) = 2

\* C31: with one worker instance that is scheduled fairly and meets no fault,
\* every order whose placed message is in order_placed is eventually
\* CONFIRMED or CANCELLED with its placed message acknowledged.
PlacedEventuallySettled ==
  \A o \in OrderIds :
    (\E i \in 1..Len(placedQ) : placedQ[i].order_id = o)
      ~> (status[o] \in Terminal /\ o \in acked)

\* The instance has settled both orders and acknowledged both messages, one
\* order CONFIRMED and the other one CANCELLED for lack of stock.
PlacedEventuallySettledWitness ==
  /\ acked = OrderIds
  /\ \E o \in OrderIds : status[o] = "CONFIRMED"
  /\ \E o \in OrderIds : status[o] = "CANCELLED"
  /\ placedQ = <<>>
  /\ \A w \in Workers : wk[w] = IdleWorker

\* A run waits in SELECT ... FOR UPDATE for the row of its current item,
\* which the transaction of another instance has locked.
WaitsFor(w, v) ==
  /\ w # v
  /\ wk[w].pc = "item"
  /\ ProductExists(CurrentItem(w).product_id)
  /\ CurrentItem(w).product_id \in wk[v].held

\* C32: in no reachable state do the transactions of two worker instances
\* each wait for a product row the other one has locked, whatever the order
\* of the products in the two placed messages.
NoLockCycle ==
  \A w, v \in Workers : ~(WaitsFor(w, v) /\ WaitsFor(v, w))

SameProductAccumulates ==
  [][\A w \in Workers :
       LET items == wk[w].msg.items
           i == wk[w].idx
       IN /\ (wk[w].pc = "item" /\ wk'[w].idx = i + 1) =>
               QtyUpTo(items, items[i].product_id, i)
                 <= wk'[w].seen[items[i].product_id]
          /\ (wk[w].pc = "item" /\ wk'[w].pc = "failOrder"
                /\ wk'[w].reason.kind = "insufficient") =>
               /\ QtyUpTo(items, items[i].product_id, i)
                    > wk'[w].seen[items[i].product_id]
               /\ wk'[w].reason.available =
                    wk'[w].seen[items[i].product_id]
                      - QtyUpTo(items, items[i].product_id, i - 1)
          /\ (wk[w].pc = "confirm" /\ wk'[w].pc = "announce") =>
               \A p \in Products :
                 QtyOf(items, p) > 0 => QtyOf(items, p) <= wk[w].seen[p]]_vars

\* An order with two lines of one unit of the same product met a stock of
\* one: the first line passed and the second found nothing left.
SameProductAccumulatesWitness ==
  \E w \in Workers :
    /\ wk[w].pc = "failOrder"
    /\ wk[w].idx = 2
    /\ wk[w].msg.items[1].product_id = wk[w].msg.items[2].product_id
    /\ wk[w].seen[CurrentItem(w).product_id] = 1
    /\ wk[w].reason = InsufficientReason(CurrentItem(w).product_id, 0, 1)

\* C35: the status of every order row is PENDING, CONFIRMED or CANCELLED in
\* every state, a new row starts as PENDING, and FAILED, which the
\* valid_status constraint allows, is never assigned.
StatusNeverFailed ==
  [][\A o \in OrderIds :
       /\ status[o] \in {"NONE", "PENDING"} \cup Terminal
       /\ status'[o] \in {"NONE", "PENDING"} \cup Terminal
       /\ status'[o] # "FAILED"
       /\ (status[o] = "NONE" /\ status'[o] # "NONE") => status'[o] = "PENDING"
       /\ status[o] # "NONE" => status'[o] # "NONE"]_vars

\* The three statuses at work: one order was cancelled by failOrder, the
\* other one is PENDING with its run about to commit CONFIRMED.
StatusNeverFailedWitness ==
  \E o \in OrderIds, w \in Workers :
    /\ status[o] = "CANCELLED"
    /\ o \in acked
    /\ Order(w) # o
    /\ wk[w].pc = "confirm"
    /\ status[Order(w)] = "PENDING"

\* C36: with placed messages made by CreateOrder, whose quantities are all
\* >= 1, no step raises the committed stock of a product: not a
\* cancellation, not a rollback, not a run on a redelivered message.
StockNonIncreasing ==
  [][\A p \in Products : stock'[p] <= stock[p]]_vars

\* A cancelled and acknowledged order has left its partial decrement behind:
\* product 1 is below its seed stock and no CONFIRMED order has a line of it.
StockNonIncreasingWitness ==
  \E o \in OrderIds :
    /\ status[o] = "CANCELLED"
    /\ o \in acked
    /\ stock[1] < SeedStock
    /\ ConfirmedQty(1) = 0
    /\ \A w \in Workers : wk[w].pc = "idle"

====
